---- MODULE Spec2Model ----
(***************************************************************************)
(* Model of scripts/sync_rulesets.py: the ruleset reconciler that reads    *)
(* rulesets/*.txt, validates every rule name against the GitHub API and    *)
(* rewrites (or, with --check, only reports) the files.                    *)
(*                                                                         *)
(* Text is a sequence of one-character strings, so that strip, splitlines  *)
(* and join are computed as Python computes them.  The text of a file is   *)
(* what read_text returns: "\r\n" and "\r" are already "\n".               *)
(***************************************************************************)
EXTENDS Integers, Sequences, FiniteSets

VARIABLES
    files,        \* content of rulesets/*.txt, in sorted path order
    remote,       \* what the GitHub API answers for each repository name
    token,        \* GITHUB_TOKEN / GH_TOKEN (empty when unset)
    has_dir,      \* rulesets/ is a directory
    check_only,   \* "--check" in argv
    pc,           \* position of main / sync_ruleset
    idx,          \* index in files of the path main is processing
    raw_lines,    \* read_ruleset_file: raw_lines
    rules,        \* sync_ruleset: rules
    ri,           \* index in rules of the rule being validated
    url,          \* _paginate: url (a page number, 0 is None)
    kept,         \* sync_ruleset: kept
    removed,      \* sync_ruleset: removed
    results,      \* what sync_ruleset returned for each path of this run
    changed_any,  \* main: changed_any
    output,       \* lines printed by main
    exit_status,  \* process exit status (-1 while running)
    log,          \* requests sent by this run, in order
    before,       \* content of the files when this run started
    prev,         \* the previous run: its mode, its end and its results
    run           \* number of the current run of the program

vars == <<files, remote, token, has_dir, check_only, pc, idx, raw_lines, rules,
          ri, url, kept, removed, results, changed_any, output, exit_status,
          log, before, prev, run>>

(***************************************************************************)
(* Bounds                                                                  *)
(***************************************************************************)
MaxLines == 2
MaxPages == 3
MaxRuns == 2
MaxTextLen == 5

(***************************************************************************)
(* Program constants                                                       *)
(***************************************************************************)
TAG_REQUIRED == <<"v", "1">>

None == <<"None">>

(***************************************************************************)
(* Text helpers                                                            *)
(***************************************************************************)
isspace(c) == c \in {" ", "\t", "\n", "\f"}

RECURSIVE lstrip(_)
lstrip(s) ==
    IF s = <<>> THEN s
    ELSE IF isspace(Head(s)) THEN lstrip(Tail(s)) ELSE s

RECURSIVE rstrip(_)
rstrip(s) ==
    IF s = <<>> THEN s
    ELSE IF isspace(s[Len(s)]) THEN rstrip(SubSeq(s, 1, Len(s) - 1)) ELSE s

strip(s) == rstrip(lstrip(s))

LineBreaks == {"\n", "\f"}

RECURSIVE splitlines(_)
splitlines(text) ==
    IF text = <<>> THEN <<>>
    ELSE LET brk == {i \in 1..Len(text) : text[i] \in LineBreaks}
         IN IF brk = {} THEN <<text>>
            ELSE LET i == CHOOSE j \in brk : \A k \in brk : j <= k
                 IN <<SubSeq(text, 1, i - 1)>>
                      \o splitlines(SubSeq(text, i + 1, Len(text)))

RECURSIVE join(_, _)
join(sep, parts) ==
    IF parts = <<>> THEN <<>>
    ELSE IF Len(parts) = 1 THEN parts[1]
    ELSE parts[1] \o sep \o join(sep, Tail(parts))

serialize_spaces(names) ==
    join(<<" ">>, names) \o (IF names # <<>> THEN <<"\n">> ELSE <<>>)

serialize(names) == join(<<"\n">>, names) \o (IF names # <<>> THEN <<"\n">> ELSE <<>>)

(***************************************************************************)
(* Entry normalizer                                                        *)
(***************************************************************************)
normalize_rule_name_unstripped(raw) ==
    LET s == raw
    IN IF s = <<>> \/ s[1] = "#" THEN None
       ELSE IF \E i \in 1..Len(s) : isspace(s[i]) THEN None
       ELSE IF s[1] = "." \/ s[1] = "_" THEN None
       ELSE s

normalize_rule_name(raw) ==
    LET s == strip(raw)
    IN IF s = <<>> \/ s[1] = "#" THEN None
       ELSE IF \E i \in 1..Len(s) : isspace(s[i]) THEN None
       ELSE IF s[1] = "." \/ s[1] = "_" THEN None
       ELSE s

RECURSIVE read_loop(_, _)
read_loop(lines, acc) ==
    IF lines = <<>> THEN acc
    ELSE LET name == normalize_rule_name(Head(lines))
         IN IF name = None THEN read_loop(Tail(lines), acc)
            ELSE IF \E i \in 1..Len(acc) : acc[i] = name
                 THEN read_loop(Tail(lines), acc)
            ELSE read_loop(Tail(lines), Append(acc, name))

read_ruleset_file(text) == read_loop(splitlines(text), <<>>)

(***************************************************************************)
(* Remote service: responses and the client's reading of them             *)
(***************************************************************************)
Absent == "absent"

Dict(archived, fork) ==
    [type |-> "dict", archived |-> archived, fork |-> fork, items |-> <<>>]

List(items) ==
    [type |-> "list", archived |-> Absent, fork |-> Absent, items |-> items]

NoData == [type |-> "none", archived |-> Absent, fork |-> Absent, items |-> <<>>]

\* kind: "ok" (2xx with a JSON body), "http_error" (HTTPError with status),
\* "url_error" (network failure or timeout), "bad_json" (2xx, body not JSON)
Response(kind, status, data, link) ==
    [kind |-> kind, status |-> status, data |-> data, link |-> link]

NotFoundResponse == Response("http_error", 404, NoData, <<>>)

\* _request_json: the JSON and the headers, or the exception raised
request_json(resp) ==
    IF resp.kind = "ok"
    THEN [raised |-> "", status |-> 200, data |-> resp.data, link |-> resp.link]
    ELSE IF resp.kind = "http_error"
    THEN [raised |-> "GitHubApiError", status |-> resp.status,
          data |-> NoData, link |-> <<>>]
    ELSE IF resp.kind = "bad_json"
    THEN [raised |-> "JSONDecodeError", status |-> 200, data |-> NoData, link |-> <<>>]
    ELSE [raised |-> "URLError", status |-> 0, data |-> NoData, link |-> <<>>]

repo_exists_keeps_forks(resp) ==
    LET r == request_json(resp)
    IN IF r.raised = "GitHubApiError"
       THEN (IF r.status = 404 THEN [raised |-> FALSE, value |-> FALSE]
             ELSE [raised |-> TRUE, value |-> FALSE])
       ELSE IF r.raised # "" THEN [raised |-> TRUE, value |-> FALSE]
       ELSE IF r.data.type # "dict" THEN [raised |-> FALSE, value |-> FALSE]
       ELSE IF r.data.archived = "true" THEN [raised |-> FALSE, value |-> FALSE]
       ELSE [raised |-> FALSE, value |-> TRUE]

repo_exists_any_status(resp) ==
    LET r == request_json(resp)
    IN IF r.raised = "GitHubApiError" THEN [raised |-> FALSE, value |-> FALSE]
       ELSE IF r.raised # "" THEN [raised |-> TRUE, value |-> FALSE]
       ELSE IF r.data.type # "dict" THEN [raised |-> FALSE, value |-> FALSE]
       ELSE IF r.data.archived = "true" THEN [raised |-> FALSE, value |-> FALSE]
       ELSE IF r.data.fork = "true" THEN [raised |-> FALSE, value |-> FALSE]
       ELSE [raised |-> FALSE, value |-> TRUE]

\* repo_exists: "raise", or the boolean returned
repo_exists(resp) ==
    LET r == request_json(resp)
    IN IF r.raised = "GitHubApiError"
       THEN (IF r.status = 404 THEN [raised |-> FALSE, value |-> FALSE]
             ELSE [raised |-> TRUE, value |-> FALSE])
       ELSE IF r.raised # "" THEN [raised |-> TRUE, value |-> FALSE]
       ELSE IF r.data.type # "dict" THEN [raised |-> FALSE, value |-> FALSE]
       ELSE IF r.data.archived = "true" THEN [raised |-> FALSE, value |-> FALSE]
       ELSE IF r.data.fork = "true" THEN [raised |-> FALSE, value |-> FALSE]
       ELSE [raised |-> FALSE, value |-> TRUE]

\* A tag item: a JSON object with a "name" (a string or not), or no object
TagItem(name) == [type |-> "dict", isstr |-> TRUE, name |-> name]
TagItemNoName == [type |-> "dict", isstr |-> FALSE, name |-> <<>>]
TagItemNoDict == [type |-> "str", isstr |-> FALSE, name |-> <<>>]

\* The body of the for loop of repo_has_required_tag over the items of one
\* page: "match" (return True), "raise" (item.get on a non-object), "none"
RECURSIVE scan_items(_)
scan_items(items) ==
    IF items = <<>> THEN "none"
    ELSE LET item == Head(items)
         IN IF item.type # "dict" THEN "raise"
            ELSE IF ~item.isstr THEN scan_items(Tail(items))
            ELSE IF strip(item.name) = TAG_REQUIRED THEN "match"
            ELSE scan_items(Tail(items))

\* One part of the Link header after split(","): blank after strip, or a
\* link with a rel and a target page (0: no <...> in the part)
LinkPart(rel, target) == [blank |-> FALSE, rel |-> rel, target |-> target]
BlankPart == [blank |-> TRUE, rel |-> "", target |-> 0]

RECURSIVE next_url_first_part(_)
next_url_first_part(link) ==
    IF link = <<>> THEN 0
    ELSE LET part == Head(link)
         IN IF part.blank THEN next_url_first_part(Tail(link))
            ELSE IF part.rel = "next" THEN part.target
            ELSE 0

\* _paginate: next_url from the Link header (0 is None)
RECURSIVE next_url(_)
next_url(link) ==
    IF link = <<>> THEN 0
    ELSE LET part == Head(link)
         IN IF part.blank THEN next_url(Tail(link))
            ELSE IF part.rel = "next" THEN part.target
            ELSE next_url(Tail(link))

(***************************************************************************)
(* The run: main, sync_ruleset and the requests they send                  *)
(***************************************************************************)
Paths == 1..Len(files)

\* What the service answers for a repository name
Lookup(repo) ==
    IF repo \in DOMAIN remote THEN remote[repo]
    ELSE [meta |-> NotFoundResponse, tags |-> <<NotFoundResponse>>]

NoResult == [done |-> FALSE, changed |-> FALSE, removed |-> <<>>, kept |-> <<>>]

prepend(list, x) == <<x>> \o list

\* list.append
append(list, x) == Append(list, x)

\* sync_ruleset: changed, and whether the file is written
is_changed_by_entries(updated, original) ==
    read_ruleset_file(updated) # read_ruleset_file(original)

is_changed(updated, original) == updated # original

should_write_always(changed, check) == changed

should_write(changed, check) == changed /\ ~check

\* main: the value returned after the loop
exit_code_any_change(check, any) == IF any THEN 1 ELSE 0

exit_code(check, any) == IF check /\ any THEN 1 ELSE 0

\* An exception nobody catches, or SystemExit with a message: status 1
Abort ==
    /\ pc' = "aborted"
    /\ exit_status' = 1

\* main, up to the loop over the files
Start ==
    /\ pc = "start"
    /\ IF token = <<>> \/ ~has_dir
       THEN /\ Abort
            /\ UNCHANGED <<idx, output>>
       ELSE IF files = <<>>
       THEN /\ pc' = "done"
            /\ exit_status' = 0
            /\ output' = Append(output, [path |-> 0, text |-> "no files", names |-> <<>>])
            /\ UNCHANGED idx
       ELSE /\ pc' = "read"
            /\ idx' = 1
            /\ UNCHANGED <<output, exit_status>>
    /\ UNCHANGED <<files, remote, token, has_dir, check_only, raw_lines, rules, ri,
                   url, kept, removed, results, changed_any, log, before, prev, run>>

\* sync_ruleset: read_ruleset_file and the empty kept and removed
ReadRuleset ==
    /\ pc = "read"
    /\ raw_lines' = splitlines(files[idx])
    /\ rules' = read_ruleset_file(files[idx])
    /\ kept' = <<>>
    /\ removed' = <<>>
    /\ ri' = 1
    /\ pc' = IF rules' = <<>> THEN "finish" ELSE "exists"
    /\ UNCHANGED <<files, remote, token, has_dir, check_only, idx, url, results,
                   changed_any, output, exit_status, log, before, prev, run>>

\* The end of one iteration of the loop over rules
NextRule ==
    /\ ri' = ri + 1
    /\ pc' = IF ri = Len(rules) THEN "finish" ELSE "exists"

\* sync_ruleset: repo_exists(rule), one metadata request
RepoExists ==
    /\ pc = "exists"
    /\ LET rule == rules[ri]
           r == repo_exists(Lookup(rule).meta)
       IN /\ log' = Append(log, [op |-> "meta", repo |-> rule, page |-> 0, path |-> idx])
          /\ IF r.raised
             THEN /\ Abort
                  /\ UNCHANGED <<ri, removed, url>>
             ELSE IF ~r.value
             THEN /\ removed' = append(removed, rule)
                  /\ NextRule
                  /\ UNCHANGED <<url, exit_status>>
             ELSE /\ pc' = "tags"
                  /\ url' = 1
                  /\ UNCHANGED <<ri, removed, exit_status>>
    /\ UNCHANGED <<files, remote, token, has_dir, check_only, idx, raw_lines, rules,
                   kept, results, changed_any, output, before, prev, run>>

\* repo_has_required_tag: one page of _paginate and the scan of its items
FetchTagPage ==
    /\ pc = "tags"
    /\ LET rule == rules[ri]
           r == request_json(Lookup(rule).tags[url])
           found == scan_items(r.data.items)
           next == next_url(r.link)
       IN /\ log' = Append(log, [op |-> "tags", repo |-> rule, page |-> url, path |-> idx])
          /\ IF r.raised # "" \/ r.data.type # "list" \/ found = "raise"
             THEN /\ Abort
                  /\ UNCHANGED <<ri, kept, removed, url>>
             ELSE IF found = "match"
             THEN /\ kept' = append(kept, rule)
                  /\ NextRule
                  /\ UNCHANGED <<removed, url, exit_status>>
             ELSE IF next # 0
             THEN /\ url' = next
                  /\ UNCHANGED <<pc, ri, kept, removed, exit_status>>
             ELSE /\ removed' = append(removed, rule)
                  /\ NextRule
                  /\ UNCHANGED <<kept, url, exit_status>>
    /\ UNCHANGED <<files, remote, token, has_dir, check_only, idx, raw_lines, rules,
                   results, changed_any, output, before, prev, run>>

\* sync_ruleset after the loop, and the rest of main's loop body
FinishSync ==
    /\ pc = "finish"
    /\ LET original == files[idx]
           updated == serialize(kept)
           changed == is_changed(updated, original)
           line1 == IF removed # <<>>
                    THEN <<[path |-> idx, text |-> "removed", names |-> removed]>>
                    ELSE <<>>
           line2 == [path |-> idx,
                     text |-> IF changed
                              THEN (IF check_only THEN "would change" ELSE "updated")
                              ELSE "ok",
                     names |-> <<>>]
       IN /\ files' = IF should_write(changed, check_only)
                      THEN [files EXCEPT ![idx] = updated]
                      ELSE files
          /\ results' = [results EXCEPT ![idx] =
                            [done |-> TRUE, changed |-> changed,
                             removed |-> removed, kept |-> kept]]
          /\ changed_any' = (changed_any \/ changed)
          /\ output' = output \o line1 \o <<line2>>
    /\ idx' = idx + 1
    /\ pc' = IF idx = Len(files) THEN "exit" ELSE "read"
    /\ UNCHANGED <<remote, token, has_dir, check_only, raw_lines, rules, ri, url,
                   kept, removed, exit_status, log, before, prev, run>>

\* main after the loop
Exit ==
    /\ pc = "exit"
    /\ pc' = "done"
    /\ exit_status' = exit_code(check_only, changed_any)
    /\ output' = IF exit_status' = 1
                 THEN Append(output, [path |-> 0, text |-> "invalid", names |-> <<>>])
                 ELSE output
    /\ UNCHANGED <<files, remote, token, has_dir, check_only, idx, raw_lines, rules,
                   ri, url, kept, removed, results, changed_any, log, before, prev, run>>

\* The program is started again, with or without --check, against the same
\* files and the same answers of the service
Rerun ==
    /\ pc \in {"done", "aborted"}
    /\ run < MaxRuns
    /\ run' = run + 1
    /\ prev' = [check_only |-> check_only, pc |-> pc, results |-> results,
                exit_status |-> exit_status]
    /\ check_only' \in BOOLEAN
    /\ pc' = "start"
    /\ idx' = 0
    /\ raw_lines' = <<>>
    /\ rules' = <<>>
    /\ ri' = 0
    /\ url' = 0
    /\ kept' = <<>>
    /\ removed' = <<>>
    /\ results' = [p \in Paths |-> NoResult]
    /\ changed_any' = FALSE
    /\ output' = <<>>
    /\ exit_status' = -1
    /\ log' = <<>>
    /\ before' = files
    /\ UNCHANGED <<files, remote, token, has_dir>>

Next ==
    \/ Start
    \/ ReadRuleset
    \/ RepoExists
    \/ FetchTagPage
    \/ FinishSync
    \/ Exit
    \/ Rerun

\* The state of a process that has just been started
InitRun ==
    /\ check_only \in BOOLEAN
    /\ pc = "start"
    /\ idx = 0
    /\ raw_lines = <<>>
    /\ rules = <<>>
    /\ ri = 0
    /\ url = 0
    /\ kept = <<>>
    /\ removed = <<>>
    /\ results = [p \in Paths |-> NoResult]
    /\ changed_any = FALSE
    /\ output = <<>>
    /\ exit_status = -1
    /\ log = <<>>
    /\ before = files
    /\ prev = [check_only |-> FALSE, pc |-> "none", results |-> <<>>, exit_status |-> -1]
    /\ run = 1

(***************************************************************************)
(* Inputs: file contents and answers of the service                        *)
(***************************************************************************)
SeqsUpTo(S, n) == UNION {[1..k -> S] : k \in 0..n}

\* Texts of at most n lines taken from lines, with or without a final newline
ContentsOf(lines, n) ==
    {join(<<"\n">>, ls) \o end : ls \in SeqsUpTo(lines, n), end \in {<<>>, <<"\n">>}}

RuleA == <<"a">>
RuleB == <<"b">>
RepoNames == {RuleA, RuleB}

\* a rule, another rule, a padded line, a comment line, a blank line, and
\* two rules with a form feed between them (a line boundary of splitlines)
RawLines == {RuleA, RuleB, <<" ", "a">>, <<"#">>, <<>>, <<"b", "\f", "a">>}

Token == <<"t">>

OkMeta == Response("ok", 200, Dict("false", "false"), <<>>)
TagPage(items, link) == Response("ok", 200, List(items), link)
V1 == TagItem(TAG_REQUIRED)
V10 == TagItem(<<"v", "1", "0">>)
PaddedV1 == TagItem(<<" ", "v", "1">>)

Service(meta, tags) == [meta |-> meta, tags |-> tags]
NotFound == Service(NotFoundResponse, <<NotFoundResponse>>)
Forbidden == Service(Response("http_error", 403, NoData, <<>>), <<NotFoundResponse>>)
Unreachable == Service(Response("url_error", 0, NoData, <<>>), <<NotFoundResponse>>)
BadJson == Service(Response("bad_json", 200, NoData, <<>>), <<NotFoundResponse>>)
NonDict == Service(Response("ok", 200, List(<<>>), <<>>), <<TagPage(<<V1>>, <<>>)>>)
Archived == Service(Response("ok", 200, Dict("true", "false"), <<>>), <<TagPage(<<V1>>, <<>>)>>)
Fork == Service(Response("ok", 200, Dict("false", "true"), <<>>), <<TagPage(<<V1>>, <<>>)>>)
NoFlags == Service(Response("ok", 200, Dict(Absent, Absent), <<>>), <<TagPage(<<V1>>, <<>>)>>)
OkV1 == Service(OkMeta, <<TagPage(<<V10, V1>>, <<BlankPart>>)>>)
OkNoV1 == Service(OkMeta, <<TagPage(<<V10>>, <<BlankPart>>)>>)
OkV1Page2 ==
    Service(OkMeta, <<TagPage(<<V10>>, <<LinkPart("next", 2), LinkPart("last", 2)>>),
                      TagPage(<<PaddedV1>>, <<LinkPart("prev", 1)>>)>>)
TagsRateLimited ==
    Service(OkMeta, <<TagPage(<<V10>>, <<LinkPart("next", 2)>>),
                      Response("http_error", 429, NoData, <<>>)>>)
TagsNotFound == Service(OkMeta, <<NotFoundResponse>>)
TagsNonList == Service(OkMeta, <<Response("ok", 200, Dict(Absent, Absent), <<>>)>>)
TagsNoDict == Service(OkMeta, <<TagPage(<<TagItemNoDict, V1>>, <<>>)>>)
TagsNoName == Service(OkMeta, <<TagPage(<<TagItemNoName>>, <<>>)>>)

Verdicts ==
    {NotFound, Archived, Fork, NonDict, NoFlags, OkV1, OkNoV1, OkV1Page2, Forbidden}
Failures ==
    {Unreachable, BadJson, TagsRateLimited, TagsNotFound, TagsNonList, TagsNoDict,
     TagsNoName}

\* One ruleset file, any text of MaxLines lines
Init ==
    /\ files \in {<<c>> : c \in ContentsOf(RawLines, MaxLines)}
    /\ remote \in [RepoNames -> Verdicts]
    /\ token = Token
    /\ has_dir = TRUE
    /\ InitRun

Spec == Init /\ [][Next]_vars

NextOnce ==
    \/ Start
    \/ ReadRuleset
    \/ RepoExists
    \/ FetchTagPage
    \/ FinishSync
    \/ Exit

\* Several ruleset files (none, or two) of at most one rule each, every kind
\* of answer of the service, and the two configuration errors
InitMulti ==
    /\ files \in [1..2 -> ContentsOf(RepoNames, 1)] \cup {<<>>}
    /\ remote \in [RepoNames -> Verdicts \cup Failures]
    /\ \/ token = Token /\ has_dir = TRUE
       \/ token = <<>> /\ has_dir = TRUE /\ remote = [r \in RepoNames |-> OkV1]
       \/ token = Token /\ has_dir = FALSE /\ remote = [r \in RepoNames |-> OkV1]
    /\ InitRun

SpecMulti == InitMulti /\ [][NextOnce]_vars

\* Tag listings: chains of 1..MaxPages pages, each with one of these lists
\* of markers
PageItems ==
    {<<>>, <<V10>>, <<PaddedV1>>, <<V10, V1>>, <<TagItemNoName, V10>>}

\* The Link header of page k of n
LinkHeaders(k, n) ==
    IF k < n
    THEN {<<LinkPart("next", k + 1)>>,
          <<LinkPart("prev", k - 1), BlankPart, LinkPart("next", k + 1),
            LinkPart("last", n)>>}
    ELSE {<<BlankPart>>, <<LinkPart("prev", k - 1), LinkPart("first", 1)>>}

TagChains ==
    UNION {{ch \in [1..n -> {TagPage(items, link) :
                                items \in PageItems,
                                link \in UNION {LinkHeaders(k, n) : k \in 1..n}}] :
               \A k \in 1..n : ch[k].link \in LinkHeaders(k, n)} : n \in 1..MaxPages}

InitTags ==
    /\ files = <<serialize(<<RuleA>>)>>
    /\ remote \in {[r \in {RuleA} |-> Service(OkMeta, ch)] : ch \in TagChains}
    /\ token = Token
    /\ has_dir = TRUE
    /\ InitRun

SpecTags == InitTags /\ [][NextOnce]_vars

\* One ruleset file, any text of at most MaxTextLen of these characters
TextChars == {"a", "A", " ", "\t", "#", ".", "_", "\n"}

InitNorm ==
    /\ files \in {<<c>> : c \in SeqsUpTo(TextChars, MaxTextLen)}
    /\ remote = [r \in {RuleA} |-> OkV1]
    /\ token = Token
    /\ has_dir = TRUE
    /\ InitRun
    /\ check_only = TRUE

SpecNorm == InitNorm /\ [][NextOnce]_vars

(***************************************************************************)
(* Properties                                                              *)
(***************************************************************************)
\* The canonical text of a list of entries: every entry followed by a newline
RECURSIVE LinesOf(_)
LinesOf(names) ==
    IF names = <<>> THEN <<>>
    ELSE Head(names) \o <<"\n">> \o LinesOf(Tail(names))

Printed(p, text) == \E i \in 1..Len(output) : output[i].path = p /\ output[i].text = text

\* C1: in a run with --check no file ever differs from its content at the
\* start of the run, and every path whose reconciliation returned
\* changed = true is reported as "would change".
C1_CheckOnlyNonMutation ==
    check_only =>
        /\ files = before
        /\ \A p \in Paths :
              results[p].done /\ results[p].changed =>
                  Printed(p, "would change") /\ ~Printed(p, "updated")

C1_Witness ==
    /\ check_only
    /\ pc = "done"
    /\ \E p \in Paths :
          /\ results[p].changed
          /\ LinesOf(results[p].kept) # files[p]
          /\ files[p] = before[p]
          /\ Printed(p, "would change")

\* C2: once a run without --check has completed, the next run against the
\* same answers of the service changes no file, and every reconciliation it
\* completes returns changed = false and removes nothing.
C2_Idempotence ==
    (run > 1 /\ prev.pc = "done" /\ ~prev.check_only) =>
        /\ files = before
        /\ \A p \in Paths :
              results[p].done => ~results[p].changed /\ results[p].removed = <<>>

C2_Witness ==
    /\ run = 2
    /\ pc = "done"
    /\ prev.pc = "done"
    /\ ~prev.check_only
    /\ prev.results[1].changed
    /\ prev.results[1].removed = <<RuleB>>
    /\ files[1] = <<"a", "\n">>
    /\ results[1].done
    /\ ~results[1].changed

\* C5: changed is true exactly when the kept entries, each followed by one
\* newline, differ from the text the file had; without --check the file
\* then holds exactly that canonical text.
C5_ChangedIsByteComparison ==
    \A p \in Paths :
        results[p].done =>
            /\ results[p].changed <=> (LinesOf(results[p].kept) # before[p])
            /\ ~check_only => files[p] = LinesOf(results[p].kept)

C5_Witness ==
    /\ pc = "done"
    /\ ~check_only
    /\ \E p \in Paths :
          /\ results[p].removed = <<>>
          /\ results[p].kept = <<RuleA, RuleB>>
          /\ results[p].changed
          /\ before[p] = <<"a", "\n", "b">>
          /\ files[p] = <<"a", "\n", "b", "\n">>

\* C6: a run that reaches the end of main exits with 1 exactly when --check
\* was given and some reconciliation returned changed = true, and with 0
\* otherwise.
C6_ExitStatus ==
    pc = "done" =>
        /\ exit_status \in {0, 1}
        /\ exit_status = 1 <=> (check_only /\ \E p \in Paths : results[p].changed)

C6_Witness ==
    /\ pc = "done"
    /\ check_only
    /\ exit_status = 1
    /\ \E p, q \in Paths : results[p].changed /\ ~results[q].changed

\* The answer of the service to a logged request
Answer(req) ==
    IF req.op = "meta" THEN Lookup(req.repo).meta ELSE Lookup(req.repo).tags[req.page]

\* s is t with whitespace around it, and t has none at its ends
TrimsTo(s, t) ==
    /\ t # <<>> => ~isspace(t[1]) /\ ~isspace(t[Len(t)])
    /\ \E i \in 0..Len(s) :
          /\ i + Len(t) <= Len(s)
          /\ SubSeq(s, i + 1, i + Len(t)) = t
          /\ \A k \in 1..Len(s) : (k <= i \/ k > i + Len(t)) => isspace(s[k])

\* The metadata of the repository is an object, neither archived nor a fork
MetaPasses(repo) ==
    LET m == Lookup(repo).meta
    IN /\ m.kind = "ok"
       /\ m.data.type = "dict"
       /\ m.data.archived # "true"
       /\ m.data.fork # "true"

\* Page k of the tag listing of the repository has the required marker
PageHasRequired(repo, k) ==
    LET page == Lookup(repo).tags[k]
    IN \E i \in 1..Len(page.data.items) :
          page.data.items[i].isstr /\ TrimsTo(page.data.items[i].name, TAG_REQUIRED)

HasRequired(repo) == \E k \in 1..Len(Lookup(repo).tags) : PageHasRequired(repo, k)

Eligible(repo) == MetaPasses(repo) /\ HasRequired(repo)
Ineligible(repo) == ~Eligible(repo)

\* The requests of one kind sent for the path being processed
Requests(op) == SelectSeq(log, LAMBDA r : r.op = op /\ r.path = idx)

\* C8: while a file is reconciled, kept and removed are the eligible and the
\* ineligible entries among the rules validated so far, in the order of
\* rules; the metadata requests follow the order of rules, one rule at a
\* time; what sync_ruleset returns partitions rules.
C8_PartitionInOrder ==
    /\ pc \in {"exists", "tags", "finish"} =>
          LET decided == SubSeq(rules, 1, ri - 1)
              asked == Requests("meta")
          IN /\ kept = SelectSeq(decided, Eligible)
             /\ removed = SelectSeq(decided, Ineligible)
             /\ Len(asked) = (IF pc = "tags" THEN ri ELSE ri - 1)
             /\ \A i \in 1..Len(asked) : asked[i].repo = rules[i]
             /\ pc = "finish" => ri = Len(rules) + 1
    /\ pc \in {"read", "exit", "done"} /\ idx > 1 =>
          /\ results[idx - 1].kept = SelectSeq(rules, Eligible)
          /\ results[idx - 1].removed = SelectSeq(rules, Ineligible)

C8_Witness ==
    /\ pc = "done"
    /\ LET ok == {i \in 1..Len(raw_lines) : raw_lines[i] = RuleB}
           ko == {i \in 1..Len(raw_lines) : raw_lines[i] = RuleA}
       IN ok # {} /\ ko # {} /\ \A i \in ok, j \in ko : i < j
    /\ rules = <<RuleB, RuleA>>
    /\ results[1].kept = <<RuleB, RuleA>>
    /\ results[1].removed = <<>>

\* C10: a tag listing is requested only for a repository whose metadata
\* passed, and only after the metadata request for that rule; an entry is
\* kept when both checks pass and removed otherwise.
C10_ShortCircuit ==
    /\ \A i \in 1..Len(log) :
          log[i].op = "tags" =>
              /\ MetaPasses(log[i].repo)
              /\ \E j \in 1..(i - 1) :
                    /\ log[j].op = "meta"
                    /\ log[j].repo = log[i].repo
                    /\ log[j].path = log[i].path
                    /\ \A k \in (j + 1)..i : log[k].op = "tags" /\ log[k].repo = log[i].repo
    /\ \A p \in Paths :
          results[p].done =>
              /\ \A i \in 1..Len(results[p].kept) :
                    MetaPasses(results[p].kept[i]) /\ HasRequired(results[p].kept[i])
              /\ \A i \in 1..Len(results[p].removed) :
                    ~MetaPasses(results[p].removed[i]) \/ ~HasRequired(results[p].removed[i])

C10_Witness ==
    /\ pc = "done"
    /\ remote[RuleA] = Archived
    /\ remote[RuleB] = OkV1
    /\ results[1].removed = <<RuleA>>
    /\ results[1].kept = <<RuleB>>
    /\ \A i \in 1..Len(log) : log[i].op = "tags" => log[i].repo = RuleB

\* The line without the whitespace at its two ends
Trimmed(line) ==
    LET solid == {i \in 1..Len(line) : ~isspace(line[i])}
    IN IF solid = {} THEN <<>>
       ELSE SubSeq(line, CHOOSE i \in solid : \A j \in solid : i <= j,
                         CHOOSE i \in solid : \A j \in solid : j <= i)

\* A trimmed line that is an entry
IsEntry(t) ==
    /\ t # <<>>
    /\ t[1] \notin {"#", ".", "_"}
    /\ \A i \in 1..Len(t) : ~isspace(t[i])

\* C9: rules is the list of the trimmed raw lines that are entries (not
\* empty, no '#', '.' or '_' in front, no whitespace inside), each at the
\* place of its first occurrence and never twice.
C9_Normalization ==
    LET first == {k \in 1..Len(raw_lines) :
                     /\ IsEntry(Trimmed(raw_lines[k]))
                     /\ \A j \in 1..(k - 1) : Trimmed(raw_lines[j]) # Trimmed(raw_lines[k])}
    IN /\ Len(rules) = Cardinality(first)
       /\ \A k \in first :
             rules[Cardinality({j \in first : j <= k})] = Trimmed(raw_lines[k])

C9_Witness ==
    /\ pc = "done"
    /\ raw_lines = << <<" ", "a">>, <<"a">> >>
    /\ rules = <<RuleA>>

\* The tag requests sent so far
Fetched == SelectSeq(log, LAMBDA r : r.op = "tags")

\* C7: the pages of a tag listing are requested in the order of the chain,
\* each once and none after a page that has the required marker; the rule
\* is kept exactly when some page of the chain has a marker whose trimmed
\* name is the required one, and it is removed only after the last page.
C7_TagScan ==
    LET n == Len(Lookup(RuleA).tags)
    IN /\ \A i \in 1..Len(Fetched) : Fetched[i].page = i /\ i <= n
       /\ \A i \in 1..(Len(Fetched) - 1) : ~PageHasRequired(RuleA, i)
       /\ pc \in {"finish", "exit", "done"} =>
             /\ kept = <<RuleA>> <=> HasRequired(RuleA)
             /\ kept = <<RuleA>> => PageHasRequired(RuleA, Len(Fetched))
             /\ kept # <<RuleA>> =>
                   /\ kept = <<>>
                   /\ removed = <<RuleA>>
                   /\ Len(Fetched) = n

C7_Witness ==
    /\ pc = "done"
    /\ Len(Lookup(RuleA).tags) = 3
    /\ ~PageHasRequired(RuleA, 1)
    /\ ~PageHasRequired(RuleA, 2)
    /\ PageHasRequired(RuleA, 3)
    /\ Len(Fetched) = 3
    /\ kept = <<RuleA>>

\* The request makes the client raise: an error of the service other than
\* 404 on the metadata, any error on a tag page, a body that is not JSON, a
\* tag listing that is not a list, or a tag that is not an object and comes
\* before the required marker on its page.
Raises(req) ==
    LET a == Answer(req)
    IN IF req.op = "meta"
       THEN a.kind # "ok" /\ ~(a.kind = "http_error" /\ a.status = 404)
       ELSE \/ a.kind # "ok"
            \/ a.data.type # "list"
            \/ \E i \in 1..Len(a.data.items) :
                  /\ a.data.items[i].type # "dict"
                  /\ \A j \in 1..(i - 1) :
                        ~(a.data.items[j].isstr
                            /\ TrimsTo(a.data.items[j].name, TAG_REQUIRED))

\* The text of the file is not the canonical text of its own entries, so
\* that any reconciliation of it returns changed = true
NeedsChange(p) == LinesOf(read_ruleset_file(before[p])) # before[p]

\* C4 (as stated): no run ends on a fatal error with a file rewritten and
\* another file that needed changes left as it was.
C4_NoPartialSuccess ==
    ~(/\ pc = "aborted"
      /\ ~check_only
      /\ \E p, q \in Paths :
            /\ files[p] # before[p]
            /\ ~results[q].done
            /\ NeedsChange(q)
            /\ files[q] = before[q])

\* C4 (amended): a request that raises is the last of the run, which ends
\* at once with status 1; the file being reconciled and the files after it
\* keep their text, and the files reconciled before it keep what their
\* reconciliation wrote.
C4_AbortKeepsEarlierWrites ==
    /\ \A i \in 1..Len(log) :
          Raises(log[i]) => i = Len(log) /\ pc = "aborted" /\ exit_status = 1
    /\ pc = "aborted" =>
          \A p \in Paths :
              /\ p >= idx => ~results[p].done /\ files[p] = before[p]
              /\ p < idx =>
                    /\ results[p].done
                    /\ files[p] = (IF results[p].changed /\ ~check_only
                                   THEN LinesOf(results[p].kept)
                                   ELSE before[p])

C4_Witness ==
    /\ pc = "aborted"
    /\ idx = 2
    /\ files[1] # before[1]
    /\ files[2] = before[2]
    /\ NeedsChange(2)
    /\ Raises(log[Len(log)])

\* The answer is a failure of the service other than "not found": an HTTP
\* error with another status, no answer, a body that is not JSON, metadata
\* that is not an object, a tag listing that is not a list, a tag that is
\* not an object.
RemoteFailure(req) ==
    LET a == Answer(req)
    IN \/ a.kind = "http_error" /\ a.status # 404
       \/ a.kind \in {"url_error", "bad_json"}
       \/ a.kind = "ok" /\ req.op = "meta" /\ a.data.type # "dict"
       \/ a.kind = "ok" /\ req.op = "tags" /\ a.data.type # "list"
       \/ /\ a.kind = "ok"
          /\ req.op = "tags"
          /\ \E i \in 1..Len(a.data.items) : a.data.items[i].type # "dict"

\* C3: a request answered by a failure other than "not found" ends the run
\* at once: its rule is never put in removed and the file is not rewritten.
C3_OtherFailuresAbort ==
    \A i \in 1..Len(log) :
        RemoteFailure(log[i]) =>
            /\ i = Len(log)
            /\ pc = "aborted"
            /\ \A k \in 1..Len(removed) : removed[k] # log[i].repo
            /\ files[log[i].path] = before[log[i].path]

====
